---- MODULE Spec2Model ----
(***************************************************************************)
(* Model of scripts/check_evaluations_parse.py: the envelope unwrapper     *)
(* (unwrap_raw), the text normalizer (normalize_text), the rubric          *)
(* extractor (try_parse and its inner extract) and the batch driver.       *)
(*                                                                         *)
(* A Python str is a sequence of one-character strings.  Indices into a    *)
(* str are 0-based as in the source; Slice(s, a, b) is s[a:b].             *)
(***************************************************************************)
EXTENDS Integers, Sequences, FiniteSets, TLC

\* ------------------------------------------------------------------------
\* Characters
\* ------------------------------------------------------------------------
LF == "\n"
CR == "\r"
TAB == "\t"
SP == " "
\* U+00E0, the last letter of the second configured heading
AGRAVE == "a_grave"
\* U+00C0, its upper case
UAGRAVE == "A_grave"
QUOTE == "\""
BSLASH == "\\"

\* str.isspace / the regex class \s, on the characters of the model
IsSpace(c) == c \in {SP, TAB, LF, CR}

UpperLetters == <<"A", "B", "C", "D", "E", "F", "G", "H", "I", "J", "K", "L", "M",
                  "N", "O", "P", "Q", "R", "S", "T", "U", "V", "W", "X", "Y", "Z", UAGRAVE>>
LowerLetters == <<"a", "b", "c", "d", "e", "f", "g", "h", "i", "j", "k", "l", "m",
                  "n", "o", "p", "q", "r", "s", "t", "u", "v", "w", "x", "y", "z", AGRAVE>>

LowerChar(c) ==
    IF \E i \in DOMAIN UpperLetters : UpperLetters[i] = c
    THEN LowerLetters[CHOOSE i \in DOMAIN UpperLetters : UpperLetters[i] = c]
    ELSE c

Min(S) == CHOOSE m \in S : \A x \in S : m <= x
Max(S) == CHOOSE m \in S : \A x \in S : m >= x

\* ------------------------------------------------------------------------
\* The str methods the script calls
\* ------------------------------------------------------------------------
\* s.lower()
lower(s) == SubSeq([i \in 1..Len(s) |-> LowerChar(s[i])], 1, Len(s))

\* s[a:b]
Slice(s, a, b) == SubSeq(s, a + 1, b)

\* s.find(sub, start): lowest 0-based index >= start of an occurrence, or -1
find(s, sub, start) ==
    LET cands == {i \in start..(Len(s) - Len(sub)) :
                      \A k \in 1..Len(sub) : s[i + k] = sub[k]}
    IN  IF cands = {} THEN -1 ELSE Min(cands)

\* s.strip()
strip(s) ==
    LET ns == {i \in 1..Len(s) : ~IsSpace(s[i])}
    IN  IF ns = {} THEN <<>> ELSE SubSeq(s, Min(ns), Max(ns))

\* s.rstrip()
rstrip(s) ==
    LET ns == {i \in 1..Len(s) : ~IsSpace(s[i])}
    IN  IF ns = {} THEN <<>> ELSE SubSeq(s, 1, Max(ns))

\* The operators below that walk a str or a list do it by halving the index
\* range, so that the depth of the evaluation grows with the logarithm of the
\* length; the result is the one of the left-to-right walk.

\* the 1-based positions of sep in s[lo..hi], ascending
RECURSIVE sep_positions(_, _, _, _)
sep_positions(s, sep, lo, hi) ==
    IF lo > hi THEN <<>>
    ELSE IF lo = hi THEN (IF s[lo] = sep THEN <<lo>> ELSE <<>>)
    ELSE LET mid == (lo + hi) \div 2
         IN  sep_positions(s, sep, lo, mid) \o sep_positions(s, sep, mid + 1, hi)

\* s.split(sep) for a one-character separator: never an empty list
split(s, sep) ==
    LET seps == sep_positions(s, sep, 1, Len(s))
        n == Len(seps)
    IN  [k \in 1..(n + 1) |->
            SubSeq(s, IF k = 1 THEN 1 ELSE seps[k - 1] + 1,
                      IF k = n + 1 THEN Len(s) ELSE seps[k] - 1)]

\* sep.join(parts[lo..hi])
RECURSIVE join_range(_, _, _, _)
join_range(parts, sep, lo, hi) ==
    IF lo > hi THEN <<>>
    ELSE IF lo = hi THEN parts[lo]
    ELSE LET mid == (lo + hi) \div 2
         IN  join_range(parts, sep, lo, mid) \o sep \o join_range(parts, sep, mid + 1, hi)

\* sep.join(parts)
join(parts, sep) == join_range(parts, sep, 1, Len(parts))

\* s.replace(CR LF, LF): every CR that an LF follows is dropped
RECURSIVE replace_crlf_range(_, _, _)
replace_crlf_range(s, lo, hi) ==
    IF lo > hi THEN <<>>
    ELSE IF lo = hi
         THEN (IF s[lo] = CR /\ lo < Len(s) /\ s[lo + 1] = LF THEN <<>> ELSE <<s[lo]>>)
    ELSE LET mid == (lo + hi) \div 2
         IN  replace_crlf_range(s, lo, mid) \o replace_crlf_range(s, mid + 1, hi)

replace_crlf(s) == replace_crlf_range(s, 1, Len(s))

\* re.sub of the pattern \s+ by one space: each maximal run of whitespace
\* becomes one space
RECURSIVE re_sub_ws_range(_, _, _)
re_sub_ws_range(l, lo, hi) ==
    IF lo > hi THEN <<>>
    ELSE IF lo = hi
         THEN (IF ~IsSpace(l[lo]) THEN <<l[lo]>>
               ELSE IF lo > 1 /\ IsSpace(l[lo - 1]) THEN <<>> ELSE <<SP>>)
    ELSE LET mid == (lo + hi) \div 2
         IN  re_sub_ws_range(l, lo, mid) \o re_sub_ws_range(l, mid + 1, hi)

\* A variant of re_sub_ws with a slip in it: two blanks become one, in one
\* pass from the left, so that a run of three leaves two
re_sub_ws_pairs(l) ==
    LET run(i) == i - Max({0} \cup {j \in 1..i : ~IsSpace(l[j])})
        idx == SelectSeq([i \in 1..Len(l) |-> i],
                         LAMBDA i : ~IsSpace(l[i]) \/ run(i) % 2 = 1)
    IN  [k \in 1..Len(idx) |-> IF IsSpace(l[idx[k]]) THEN SP ELSE l[idx[k]]]

re_sub_ws(l) == re_sub_ws_range(l, 1, Len(l))

\* ------------------------------------------------------------------------
\* Python values: None, str, and the JSON values json.loads can return
\* ------------------------------------------------------------------------
\* t: the type; s: the characters of a str; n: the value of an int, the
\* length of a list or dict, 1/0 for True/False.  "absent" is a missing key.
PyNone == [t |-> "none", s |-> <<>>, n |-> 0]
Absent == [t |-> "absent", s |-> <<>>, n |-> 0]
PyStr(s) == [t |-> "str", s |-> s, n |-> 0]
PyInt(n) == [t |-> "int", s |-> <<>>, n |-> n]
PyList(n) == [t |-> "list", s |-> <<>>, n |-> n]
PyDict(n) == [t |-> "dict", s |-> <<>>, n |-> n]

\* bool(v), as the tests (if v) and (not v) evaluate it
Truthy(v) ==
    CASE v.t = "str" -> v.s # <<>>
      [] v.t \in {"int", "list", "dict", "bool"} -> v.n # 0
      [] OTHER -> FALSE

\* ------------------------------------------------------------------------
\* Configuration
\* ------------------------------------------------------------------------
headings == <<
    <<"C", "o", "e", "r", "e", "n", "z", "a", SP, "n", "a", "r", "r", "a", "t", "i", "v", "a">>,
    <<"O", "r", "i", "g", "i", "n", "a", "l", "i", "t", AGRAVE>>,
    <<"I", "m", "p", "a", "t", "t", "o", SP, "e", "m", "o", "t", "i", "v", "o">>,
    <<"A", "z", "i", "o", "n", "e">> >>

\* ------------------------------------------------------------------------
\* normalize_text
\* ------------------------------------------------------------------------
normalize_line(l) == rstrip(re_sub_ws(l))

normalize_text(text) ==
    IF text.t = "none" THEN <<>>
    ELSE LET s == replace_crlf(text.s)
             parts == split(s, LF)
             lines == [i \in 1..Len(parts) |-> normalize_line(parts[i])]
         IN  strip(join(lines, <<LF>>))

\* ------------------------------------------------------------------------
\* try_parse and its inner extract
\* ------------------------------------------------------------------------
ScoreDigits == {"1", "2", "3", "4", "5"}

\* int(m.group(1)) for a character of ScoreDigits
int_of(c) == CHOOSE k \in 1..5 : <<"1", "2", "3", "4", "5">>[k] = c

\* re.match of ^\s*([1-5])\s*$ on ln: whitespace, one digit 1-5, whitespace
\* A variant of re_match_score with a slip in it: the pattern is not
\* anchored at the end of the line
re_match_prefix(ln) ==
    \E i \in 1..Len(ln) :
        /\ ln[i] \in ScoreDigits
        /\ \A j \in 1..(i - 1) : IsSpace(ln[j])
re_match_score(ln) ==
    \E i \in 1..Len(ln) :
        /\ ln[i] \in ScoreDigits
        /\ \A j \in 1..Len(ln) : j # i => IsSpace(ln[j])

\* m.group(1) of that match
score_group(ln) == ln[CHOOSE i \in 1..Len(ln) : ln[i] \in ScoreDigits]

\* The three things extract returns: None, (None, None), (score, explanation)
\* A variant of ExtractNone with a slip in it: a heading that is not found
\* is answered like a heading without a score
ExtractNone_as_pair == [found |-> TRUE, scored |-> FALSE, score |-> 0, explanation |-> <<>>]
ExtractNone == [found |-> FALSE, scored |-> FALSE, score |-> 0, explanation |-> <<>>]
ExtractNoScore == [found |-> TRUE, scored |-> FALSE, score |-> 0, explanation |-> <<>>]
ExtractScored(sc, ex) == [found |-> TRUE, scored |-> TRUE, score |-> sc, explanation |-> ex]

\* A variant of next_idx_loop with a slip in it: the section is taken to end
\* where the heading that follows in the configuration starts
next_idx_config(low, hlow, after, k, next_idx) ==
    LET me == CHOOSE g \in 1..Len(headings) : lower(headings[g]) = hlow
        j == IF me < Len(headings) THEN find(low, lower(headings[me + 1]), after) ELSE -1
    IN  IF j # -1 THEN j ELSE next_idx

\* A variant of next_idx_loop with a slip in it: no other heading is looked
\* for and the section runs to the end of the text
next_idx_end(low, hlow, after, k, next_idx) == next_idx

\* A variant of next_idx_loop with a slip in it: the section ends at the
\* largest start of another heading, not at the smallest
next_idx_max(low, hlow, after, k, next_idx) ==
    LET js == {find(low, lower(headings[g]), after) :
                  g \in {f \in 1..Len(headings) : lower(headings[f]) # hlow}} \ {-1}
    IN  IF js = {} THEN next_idx ELSE Max(js)

\* for h in headings: the smallest start of another heading at or after
\* `after`, starting from len(normalized)
RECURSIVE next_idx_loop(_, _, _, _, _)
next_idx_loop(low, hlow, after, k, next_idx) ==
    IF k > Len(headings) THEN next_idx
    ELSE IF lower(headings[k]) = hlow
         THEN next_idx_loop(low, hlow, after, k + 1, next_idx)
         ELSE LET j == find(low, lower(headings[k]), after)
              IN  IF j # -1 /\ j < next_idx
                  THEN next_idx_loop(low, hlow, after, k + 1, j)
                  ELSE next_idx_loop(low, hlow, after, k + 1, next_idx)

\* [ln.strip() for ln in section.split(LF) if ln.strip() != '']
section_lines(section) ==
    LET parts == split(section, LF)
        stripped == [i \in 1..Len(parts) |-> strip(parts[i])]
    IN  SelectSeq(stripped, LAMBDA ln : ln # <<>>)

\* A variant of score_loop with a slip in it: the explanation starts at the
\* score line instead of after it
RECURSIVE score_loop_from(_, _)
score_loop_from(lines, i) ==
    IF i > Len(lines) THEN ExtractNoScore
    ELSE IF re_match_score(lines[i])
         THEN ExtractScored(int_of(score_group(lines[i])),
                            strip(join(SubSeq(lines, i, Len(lines)), <<SP>>)))
         ELSE score_loop_from(lines, i + 1)

\* for i, ln in enumerate(lines): the first matching line decides
RECURSIVE score_loop(_, _)
score_loop(lines, i) ==
    IF i > Len(lines) THEN ExtractNoScore
    ELSE IF re_match_score(lines[i])
         THEN ExtractScored(int_of(score_group(lines[i])),
                            strip(join(SubSeq(lines, i + 1, Len(lines)), <<SP>>)))
         ELSE score_loop(lines, i + 1)

\* after and next_idx of extract for a heading that is found: the section is
\* normalized[after:next_idx]
section_span(normalized, heading) ==
    LET low == lower(normalized)
        hlow == lower(heading)
        idx == find(low, hlow, 0)
        after == idx + Len(heading)
    IN  [idx |-> idx, after |-> after,
         next_idx |-> next_idx_loop(low, hlow, after, 1, Len(normalized))]

extract(normalized, heading) ==
    LET low == lower(normalized)
        hlow == lower(heading)
        idx == find(low, hlow, 0)
    IN  IF idx < 0 THEN ExtractNone
        ELSE LET after == idx + Len(heading)
                 next_idx == next_idx_loop(low, hlow, after, 1, Len(normalized))
                 section == strip(Slice(normalized, after, next_idx))
             IN  IF section = <<>> THEN ExtractNoScore
                 ELSE score_loop(section_lines(section), 1)

\* What a call of try_parse does: it returns (ok, results, reason) or raises.
\* results is None or a dict from heading to score and explanation; reason
\* is None or a str.
NoResults == [none |-> TRUE, v |-> <<>>]
NoReason == [none |-> TRUE, v |-> <<>>]
Returned(ok, results, reason) ==
    [raised |-> FALSE, ok |-> ok, results |-> results, reason |-> reason]
Failure(reason) == Returned(FALSE, NoResults, [none |-> FALSE, v |-> reason])
Success(results) == Returned(TRUE, [none |-> FALSE, v |-> results], NoReason)
Raised == [raised |-> TRUE, ok |-> FALSE, results |-> NoResults, reason |-> NoReason]

REASON_EMPTY == <<"e", "m", "p", "t", "y">>
REASON_MISSING_SECTIONS ==
    <<"m", "i", "s", "s", "i", "n", "g", "_", "s", "e", "c", "t", "i", "o", "n", "s", ":">>
REASON_MISSING_SCORE ==
    <<"m", "i", "s", "s", "i", "n", "g", "_", "s", "c", "o", "r", "e", "_", "f", "o", "r", "_">>

\* Variants of headings_loop with a slip in them.
\* a missing heading is dropped and the headings that were found succeed
RECURSIVE headings_loop_partial(_, _, _, _)
headings_loop_partial(normalized, k, results, missing) ==
    IF k > Len(headings) THEN Success(results)
    ELSE LET h == headings[k]
             res == extract(normalized, h)
         IN  IF ~res.found
             THEN headings_loop_partial(normalized, k + 1, results, Append(missing, h))
             ELSE IF ~res.scored
                  THEN Failure(REASON_MISSING_SCORE \o h)
                  ELSE headings_loop_partial(normalized, k + 1,
                           (h :> [score |-> res.score, explanation |-> res.explanation])
                               @@ results,
                           missing)

\* a failure hands back the entries collected so far
RECURSIVE headings_loop_leaky(_, _, _, _)
headings_loop_leaky(normalized, k, results, missing) ==
    IF k > Len(headings)
    THEN IF missing # <<>>
         THEN Returned(FALSE, [none |-> FALSE, v |-> results],
                       [none |-> FALSE, v |-> REASON_MISSING_SECTIONS \o join(missing, <<",">>)])
         ELSE Success(results)
    ELSE LET h == headings[k]
             res == extract(normalized, h)
         IN  IF ~res.found
             THEN headings_loop_leaky(normalized, k + 1, results, Append(missing, h))
             ELSE IF ~res.scored
                  THEN Returned(FALSE, [none |-> FALSE, v |-> results],
                                [none |-> FALSE, v |-> REASON_MISSING_SCORE \o h])
                  ELSE headings_loop_leaky(normalized, k + 1,
                           (h :> [score |-> res.score, explanation |-> res.explanation])
                               @@ results,
                           missing)

\* the headings that are not found are collected newest first
RECURSIVE headings_loop_prepend(_, _, _, _)
headings_loop_prepend(normalized, k, results, missing) ==
    IF k > Len(headings)
    THEN IF missing # <<>>
         THEN Failure(REASON_MISSING_SECTIONS \o join(missing, <<",">>))
         ELSE Success(results)
    ELSE LET h == headings[k]
             res == extract(normalized, h)
         IN  IF ~res.found
             THEN headings_loop_prepend(normalized, k + 1, results, <<h>> \o missing)
             ELSE IF ~res.scored
                  THEN Failure(REASON_MISSING_SCORE \o h)
                  ELSE headings_loop_prepend(normalized, k + 1,
                           (h :> [score |-> res.score, explanation |-> res.explanation])
                               @@ results,
                           missing)

\* the headings are gone through from the last of the configuration to the
\* first
RECURSIVE headings_loop_down(_, _, _, _)
headings_loop_down(normalized, k, results, missing) ==
    IF k > Len(headings)
    THEN IF missing # <<>>
         THEN Failure(REASON_MISSING_SECTIONS \o join(missing, <<",">>))
         ELSE Success(results)
    ELSE LET h == headings[Len(headings) + 1 - k]
             res == extract(normalized, h)
         IN  IF ~res.found
             THEN headings_loop_down(normalized, k + 1, results, <<h>> \o missing)
             ELSE IF ~res.scored
                  THEN Failure(REASON_MISSING_SCORE \o h)
                  ELSE headings_loop_down(normalized, k + 1,
                           (h :> [score |-> res.score, explanation |-> res.explanation])
                               @@ results,
                           missing)

\* for h in headings: ... and the two returns after the loop
RECURSIVE headings_loop(_, _, _, _)
headings_loop(normalized, k, results, missing) ==
    IF k > Len(headings)
    THEN IF missing # <<>>
         THEN Failure(REASON_MISSING_SECTIONS \o join(missing, <<",">>))
         ELSE Success(results)
    ELSE LET h == headings[k]
             res == extract(normalized, h)
         IN  IF ~res.found
             THEN headings_loop(normalized, k + 1, results, Append(missing, h))
             ELSE IF ~res.scored
                  THEN Failure(REASON_MISSING_SCORE \o h)
                  ELSE headings_loop(normalized, k + 1,
                           (h :> [score |-> res.score, explanation |-> res.explanation])
                               @@ results,
                           missing)

\* A variant of try_parse with a slip in it: only the falsy input is taken
\* as empty, a text of whitespace goes on to the heading search
try_parse_nostrip(text) ==
    IF ~Truthy(text) THEN Failure(REASON_EMPTY)
    ELSE IF text.t # "str" THEN Raised
    ELSE headings_loop(normalize_text(text), 1, <<>>, <<>>)

\* text is a Python value: text.strip() raises AttributeError unless it is a str
try_parse(text) ==
    IF ~Truthy(text) THEN Failure(REASON_EMPTY)
    ELSE IF text.t # "str" THEN Raised
    ELSE IF strip(text.s) = <<>> THEN Failure(REASON_EMPTY)
    ELSE headings_loop(normalize_text(text), 1, <<>>, <<>>)

\* ------------------------------------------------------------------------
\* Payloads and json.loads
\* ------------------------------------------------------------------------
\* What unwrap_raw can see of a parsed JSON value:
\*   a dict   - its role, content and message entries (Absent: no such key);
\*              message is a dict with a content entry, or some other value
\*   a list   - its elements: dicts with role and content, or other values
\*   a scalar - a number or a string
NoMessage == [t |-> "absent", content |-> Absent]
OtherMessage == [t |-> "other", content |-> Absent]
DictMessage(content) == [t |-> "dict", content |-> content]
JDict(role, content, message) ==
    [t |-> "dict", role |-> role, content |-> content, message |-> message,
     els |-> <<>>, sc |-> PyNone]
JList(els) ==
    [t |-> "list", role |-> Absent, content |-> Absent, message |-> NoMessage,
     els |-> els, sc |-> PyNone]
JScalar(v) ==
    [t |-> "scalar", role |-> Absent, content |-> Absent, message |-> NoMessage,
     els |-> <<>>, sc |-> v]
DictEl(role, content) == [t |-> "dict", role |-> role, content |-> content]
OtherEl == [t |-> "other", role |-> Absent, content |-> Absent]

\* A stored payload: None, or a str.  A str is either written out character
\* by character (enc = "text") or is the JSON text of obj (enc = "json", s
\* the characters of that text).
NonePayload == [t |-> "none", enc |-> "text", s |-> <<>>, obj |-> JScalar(PyNone)]
TextPayload(s) == [t |-> "str", enc |-> "text", s |-> s, obj |-> JScalar(PyNone)]

\* the payload as the Python value the functions receive
raw_value(raw) == IF raw.t = "none" THEN PyNone ELSE PyStr(raw.s)

Digits == {"0", "1", "2", "3", "4", "5", "6", "7", "8", "9"}

\* The JSON grammar on a text of the model that is no JSON text of a tree:
\* such a text holds no quote, bracket, brace or literal, so it parses only
\* when it is an integer literal between optional whitespace.
IsJsonNumber(s) ==
    LET core == strip(s)
    IN  /\ core # <<>>
        /\ \A i \in 1..Len(core) : core[i] \in Digits
        /\ (Len(core) > 1 => core[1] # "0")

\* json.loads(raw): the parsed value, or JSONDecodeError.  The text of a
\* tree parses back to the tree; the value of a number is not looked at by
\* the caller.
json_loads(raw) ==
    IF raw.enc = "json" THEN [raises |-> FALSE, obj |-> raw.obj]
    ELSE IF IsJsonNumber(raw.s) THEN [raises |-> FALSE, obj |-> JScalar(PyInt(1))]
    ELSE [raises |-> TRUE, obj |-> JScalar(PyNone)]

\* ------------------------------------------------------------------------
\* unwrap_raw
\* ------------------------------------------------------------------------
\* d.get(key) and d.get(key, default) on an entry of a dict
dict_get(v) == IF v.t = "absent" THEN PyNone ELSE v
dict_get_default(v, d) == IF v.t = "absent" THEN d ELSE v

ASSISTANT == <<"a", "s", "s", "i", "s", "t", "a", "n", "t">>

\* A variant of messages_loop with a slip in it: an element whose role is no
\* str is passed over and the loop goes on
RECURSIVE messages_loop_skip(_, _)
messages_loop_skip(els, i) ==
    IF i > Len(els) THEN [kind |-> "nomatch", v |-> PyNone]
    ELSE LET el == els[i]
             role == dict_get_default(el.role, PyStr(<<>>))
         IN  IF el.t # "dict" THEN messages_loop_skip(els, i + 1)
             ELSE IF role.t # "str" THEN messages_loop_skip(els, i + 1)
             ELSE IF lower(role.s) = ASSISTANT /\ Truthy(dict_get(el.content))
                  THEN [kind |-> "return", v |-> dict_get(el.content)]
                  ELSE messages_loop_skip(els, i + 1)

\* for el in obj: the first assistant element with a truthy content is
\* returned; role.lower() raises AttributeError when role is no str
RECURSIVE messages_loop(_, _)
messages_loop(els, i) ==
    IF i > Len(els) THEN [kind |-> "nomatch", v |-> PyNone]
    ELSE LET el == els[i]
             role == dict_get_default(el.role, PyStr(<<>>))
         IN  IF el.t # "dict" THEN messages_loop(els, i + 1)
             ELSE IF role.t # "str" THEN [kind |-> "raised", v |-> PyNone]
             ELSE IF lower(role.s) = ASSISTANT /\ Truthy(dict_get(el.content))
                  THEN [kind |-> "return", v |-> dict_get(el.content)]
                  ELSE messages_loop(els, i + 1)

\* the body of the try block, once json.loads has returned obj
unwrap_obj(raw, obj) ==
    LET role_content ==
            obj.t = "dict" /\ Truthy(dict_get(obj.role)) /\ Truthy(dict_get(obj.content))
        nested ==
            /\ obj.t = "dict"
            /\ obj.message.t = "dict"
            /\ Truthy(dict_get(obj.message.content))
        loop == IF obj.t = "list" THEN messages_loop(obj.els, 1)
                ELSE [kind |-> "nomatch", v |-> PyNone]
        bare == obj.t = "dict" /\ obj.content.t = "str"
    IN  IF role_content THEN dict_get(obj.content)
        ELSE IF nested THEN dict_get(obj.message.content)
        ELSE IF loop.kind = "return" THEN loop.v
        ELSE IF loop.kind = "raised" THEN raw_value(raw)
        ELSE IF bare THEN obj.content
        ELSE raw_value(raw)

unwrap_raw(raw) ==
    IF ~Truthy(raw_value(raw)) THEN raw_value(raw)
    ELSE LET r == json_loads(raw)
         IN  IF r.raises THEN raw_value(raw) ELSE unwrap_obj(raw, r.obj)

\* ------------------------------------------------------------------------
\* The JSON text of a tree, as json.dumps writes it
\* ------------------------------------------------------------------------
RECURSIVE json_escape_range(_, _, _)
json_escape_range(s, lo, hi) ==
    IF lo > hi THEN <<>>
    ELSE IF lo = hi
         THEN (CASE s[lo] = LF -> <<BSLASH, "n">>
                 [] s[lo] = CR -> <<BSLASH, "r">>
                 [] s[lo] = TAB -> <<BSLASH, "t">>
                 [] s[lo] = QUOTE -> <<BSLASH, QUOTE>>
                 [] s[lo] = BSLASH -> <<BSLASH, BSLASH>>
                 [] OTHER -> <<s[lo]>>)
    ELSE LET mid == (lo + hi) \div 2
         IN  json_escape_range(s, lo, mid) \o json_escape_range(s, mid + 1, hi)

json_string(s) == <<QUOTE>> \o json_escape_range(s, 1, Len(s)) \o <<QUOTE>>

DigitChars == <<"0", "1", "2", "3", "4", "5", "6", "7", "8", "9">>

\* a value of the model: a str, None, an int below ten, a list of ones,
\* a dict of one key at most
json_value(v) ==
    CASE v.t = "str" -> json_string(v.s)
      [] v.t = "int" -> <<DigitChars[v.n + 1]>>
      [] v.t = "list" -> <<"[">> \o join([i \in 1..v.n |-> <<"1">>], <<",", SP>>) \o <<"]">>
      [] v.t = "dict" -> IF v.n = 0 THEN <<"{", "}">>
                         ELSE <<"{", QUOTE, "k", QUOTE, ":", SP, "1", "}">>
      [] OTHER -> <<"n", "u", "l", "l">>

KEY_ROLE == <<QUOTE, "r", "o", "l", "e", QUOTE, ":", SP>>
KEY_CONTENT == <<QUOTE, "c", "o", "n", "t", "e", "n", "t", QUOTE, ":", SP>>
KEY_MESSAGE == <<QUOTE, "m", "e", "s", "s", "a", "g", "e", QUOTE, ":", SP>>

json_members(role, content) ==
    (IF role.t = "absent" THEN <<>> ELSE <<KEY_ROLE \o json_value(role)>>)
    \o (IF content.t = "absent" THEN <<>> ELSE <<KEY_CONTENT \o json_value(content)>>)

json_message(m) ==
    CASE m.t = "absent" -> <<>>
      [] m.t = "dict" ->
            <<KEY_MESSAGE \o <<"{">> \o join(json_members(Absent, m.content), <<",", SP>>)
                \o <<"}">> >>
      [] OTHER -> <<KEY_MESSAGE \o <<"n", "u", "l", "l">> >>

json_element(el) ==
    IF el.t = "dict"
    THEN <<"{">> \o join(json_members(el.role, el.content), <<",", SP>>) \o <<"}">>
    ELSE <<"7">>

json_text(obj) ==
    CASE obj.t = "dict" ->
            <<"{">>
            \o join(json_members(obj.role, obj.content) \o json_message(obj.message),
                    <<",", SP>>)
            \o <<"}">>
      [] obj.t = "list" ->
            <<"[">>
            \o join([i \in 1..Len(obj.els) |-> json_element(obj.els[i])], <<",", SP>>)
            \o <<"]">>
      [] OTHER -> json_value(obj.sc)

JsonPayload(obj) == [t |-> "str", enc |-> "json", s |-> json_text(obj), obj |-> obj]

\* ------------------------------------------------------------------------
\* State
\* ------------------------------------------------------------------------
\* pc        - where the run is: "start", "unwrapped", "parsed" for one row of
\*             main; "start", "once", "twice" for the normalizer on its own
\* doc       - how the evaluation text was laid out (sections of lines); the
\*             program never reads it
\* raw       - the stored payload of the row
\* unwrapped - what unwrap_raw returned
\* result    - what try_parse did
\* x, once, twice - a text, normalize_text of it, normalize_text of that
\* rows, out, stats - in main: the rows fetched, the records of the report so
\*             far, and the counters checked, parsed, failed (pc is then
\*             "loop", "done" when the report is written, or "crashed")
VARIABLES pc, doc, raw, unwrapped, result, x, once, twice, rows, out, stats

vars == <<pc, doc, raw, unwrapped, result, x, once, twice, rows, out, stats>>

\* stats = {'checked': 0, 'parsed': 0, 'failed': 0}
NoStats == [checked |-> 0, parsed |-> 0, failed |-> 0]

\* result before try_parse has run
Pending == [raised |-> FALSE, ok |-> FALSE, results |-> NoResults, reason |-> NoReason]

\* ------------------------------------------------------------------------
\* Evaluation texts
\* ------------------------------------------------------------------------
\* A line as it is written (s, then the line ending eol), with what it is
\* by construction: score is the digit when the line is a lone digit 1..5
\* between optional whitespace and 0 otherwise; words is the line trimmed
\* with its inner whitespace collapsed; mention says that the line quotes the
\* label of a configured heading.
Line(s, eol, score, words, mention) ==
    [s |-> s, eol |-> eol, score |-> score, words |-> words, mention |-> mention]

DigitLine(k) == Line(<<DigitChars[k + 1]>>, <<LF>>, k, <<DigitChars[k + 1]>>, FALSE)
L0 == Line(<<"0">>, <<LF>>, 0, <<"0">>, FALSE)
L6 == Line(<<"6">>, <<LF>>, 0, <<"6">>, FALSE)
L12 == Line(<<"1", "2">>, <<LF>>, 0, <<"1", "2">>, FALSE)
L4ok == Line(<<"4", SP, "o", "k">>, <<LF>>, 0, <<"4", SP, "o", "k">>, FALSE)
Lok == Line(<<"o", "k">>, <<LF>>, 0, <<"o", "k">>, FALSE)
Lokcr == Line(<<"o", "k">>, <<CR, LF>>, 0, <<"o", "k">>, FALSE)
Lab == Line(<<SP, "a", TAB, SP, "b">>, <<LF>>, 0, <<"a", SP, "b">>, FALSE)
Lpad3 == Line(<<SP, "3", TAB>>, <<CR, LF>>, 3, <<"3">>, FALSE)
Lblank == Line(<<>>, <<LF>>, 0, <<>>, FALSE)
Lws == Line(<<SP, TAB>>, <<LF>>, 0, <<>>, FALSE)
Lazione == Line(<<"b", "e", "l", "l", "a", SP, "a", "z", "i", "o", "n", "e">>, <<LF>>, 0,
                <<"b", "e", "l", "l", "a", SP, "a", "z", "i", "o", "n", "e">>, TRUE)
\* after the label Coerenza narrativa and with no separator, these letters
\* spell the label Azione from the last letter of that label on
Lzione == Line(<<"z", "i", "o", "n", "e">>, <<LF>>, 0, <<"z", "i", "o", "n", "e">>, TRUE)
Lcoerenza == Line(<<"C", "o", "e", "r", "e", "n", "z", "a">>, <<LF>>, 0,
                  <<"C", "o", "e", "r", "e", "n", "z", "a">>, FALSE)
Lnarrativa == Line(<<"n", "a", "r", "r", "a", "t", "i", "v", "a">>, <<LF>>, 0,
                   <<"n", "a", "r", "r", "a", "t", "i", "v", "a">>, FALSE)

\* A section: the heading it belongs to (h, an index into headings; 0 when
\* the label is not written), the label as written, what separates the label
\* from the first line, and the lines.
Section(h, label, sep, body) == [h |-> h, label |-> label, sep |-> sep, body |-> body]

RenderLines(body) == join([i \in 1..Len(body) |-> body[i].s \o body[i].eol], <<>>)
RenderSection(sec) == sec.label \o sec.sep \o RenderLines(sec.body)
Render(d) == join([i \in 1..Len(d) |-> RenderSection(d[i])], <<>>)

\* The sections every family starts from: the label, a score line with the
\* digit of the heading's position, one line of explanation.
StdBody(h) == <<DigitLine(h), Lok>>
Std(h) == Section(h, headings[h], <<LF>>, StdBody(h))
WithBody(h, body) == Section(h, headings[h], <<LF>>, body)
\* the section of h with its label taken out
Unlabelled(sec) == Section(0, <<>>, sec.sep, sec.body)

H == 1..Len(headings)
Perms == {p \in [H -> H] : \A i, j \in H : i # j => p[i] # p[j]}

SeqsUpTo(S, n) == UNION {[1..k -> S] : k \in 0..n}

\* s.upper(), to write a label in capitals
UpperChar(c) ==
    IF \E i \in DOMAIN LowerLetters : LowerLetters[i] = c
    THEN UpperLetters[CHOOSE i \in DOMAIN LowerLetters : LowerLetters[i] = c]
    ELSE c
upper(s) == [i \in 1..Len(s) |-> UpperChar(s[i])]

\* Bounds of the families of texts
MaxLines == 2
MaxExpl == 2

AllLines == {DigitLine(4), DigitLine(2), Lpad3, L0, L6, L12, L4ok, Lok, Lokcr, Lab,
             Lblank, Lws, Lazione}

\* All four sections in configured order, three of them standard and one
\* with any lines at all.
\* (the lines of RareLines only in bodies of one line or of two)
RareLines == {DigitLine(2), L6, Lokcr}
FocusBodies ==
    SeqsUpTo(AllLines \ RareLines, MaxLines)
        \cup {b \in [1..1 -> AllLines] \cup [1..2 -> AllLines] :
                 \E k \in DOMAIN b : b[k] \in RareLines}
FocusDocs ==
    {[h \in H |-> IF h = f THEN WithBody(h, b) ELSE Std(h)] : f \in H, b \in FocusBodies}

\* The same with one section made of lines before a score line, the score
\* line, and lines after it.
LongDocs ==
    {[h \in H |-> IF h = 2 THEN WithBody(h, pre \o <<sc>> \o post) ELSE Std(h)] :
        pre \in SeqsUpTo({Lok, L0, L12, L4ok}, 1),
        sc \in {DigitLine(4), Lpad3},
        post \in SeqsUpTo({Lok, DigitLine(2), Lblank, Lab}, MaxExpl)}

\* The four sections in every physical order; at most one label taken out;
\* at most one section with a body of its own.
SpecialBodies ==
    {<<DigitLine(5), Lazione>>, <<DigitLine(5), Lcoerenza, Lnarrativa>>,
     <<DigitLine(5), Lab, DigitLine(2)>>, <<>>, <<L0>>}

Specials == {[h |-> 0, body |-> <<>>]} \cup {[h |-> k, body |-> b] : k \in H, b \in SpecialBodies}

PermDocs ==
    {[i \in H |->
        LET h == p[i]
            sec == IF h = sp.h THEN WithBody(h, sp.body) ELSE Std(h)
        IN  IF h = r THEN Unlabelled(sec) ELSE sec] :
        p \in Perms, r \in {0} \cup H, sp \in Specials}

\* Every physical order, two sections without a score line.
TwoBadDocs ==
    {[i \in H |->
        LET h == p[i]
        IN  IF h = ab[1] THEN WithBody(h, ba)
            ELSE IF h = ab[2] THEN WithBody(h, bb)
            ELSE Std(h)] :
        p \in Perms, ab \in {q \in H \X H : q[1] < q[2]},
        ba \in {<<>>, <<L0>>}, bb \in {<<>>, <<L6>>}}

\* Any subset of the headings, in configured or in reverse order, each one
\* standard, with a line that is no score, or with no line.
SubsetBody(opt, h) ==
    CASE opt = "std" -> StdBody(h)
      [] opt = "bad" -> <<L12>>
      [] OTHER -> <<>>

SubsetDoc(opt, order) ==
    LET present == SelectSeq(order, LAMBDA h : opt[h] # "absent")
    IN  [i \in 1..Len(present) |-> WithBody(present[i], SubsetBody(opt[present[i]], present[i]))]

SubsetDocs ==
    {SubsetDoc(opt, order) :
        opt \in [H -> {"absent", "std", "bad", "empty"}],
        order \in {<<1, 2, 3, 4>>, <<4, 3, 2, 1>>}}

\* Labels in another case, and the score on the line of the label.
StyleDocs ==
    {[i \in H |-> Section(order[i],
                          IF cs = "lower" THEN lower(headings[order[i]])
                          ELSE IF cs = "upper" THEN upper(headings[order[i]])
                          ELSE headings[order[i]],
                          sep, StdBody(order[i]))] :
        order \in {<<1, 2, 3, 4>>, <<3, 1, 4, 2>>},
        cs \in {"exact", "lower", "upper"},
        sep \in {<<LF>>, <<SP>>, <<CR, LF>>, <<SP, TAB, LF, LF>>}}

\* The first label with the last label glued onto its last letter, and the
\* two other sections, in every order.
GluedSection(body) == Section(1, headings[1], <<>>, <<Lzione>> \o body)
GluedDocs ==
    {[i \in 1..3 |-> IF p[i] = 1 THEN GluedSection(b) ELSE Std(p[i])] :
        p \in {q \in [1..3 -> 1..3] : \A i, j \in 1..3 : i # j => q[i] # q[j]},
        b \in {StdBody(4), <<L0>>, <<>>}}

\* Nothing, or whitespace only.
BlankDocs ==
    {<<>>, <<Section(0, <<>>, <<LF>>, <<Lblank>>)>>, <<Section(0, <<>>, <<SP>>, <<Lws, Lblank>>)>>}

ParseDocs ==
    FocusDocs \cup LongDocs \cup PermDocs \cup TwoBadDocs \cup SubsetDocs
        \cup StyleDocs \cup BlankDocs \cup GluedDocs

\* ------------------------------------------------------------------------
\* One row of main: unwrap_raw, then try_parse
\* ------------------------------------------------------------------------
Unwrap ==
    /\ pc = "start"
    /\ unwrapped' = unwrap_raw(raw)
    /\ pc' = "unwrapped"
    /\ UNCHANGED <<doc, raw, result, x, once, twice, rows, out, stats>>

TryParse ==
    /\ pc = "unwrapped"
    /\ result' = try_parse(unwrapped)
    /\ pc' = "parsed"
    /\ UNCHANGED <<doc, raw, unwrapped, x, once, twice, rows, out, stats>>

Next == Unwrap \/ TryParse

\* The rows are evaluation texts stored as they are.
Init ==
    /\ doc \in ParseDocs
    /\ raw = TextPayload(Render(doc))
    /\ pc = "start"
    /\ unwrapped = PyNone
    /\ result = Pending
    /\ x = PyNone
    /\ once = <<>>
    /\ twice = <<>>
    /\ rows = <<>>
    /\ out = <<>>
    /\ stats = NoStats

Spec == Init /\ [][Next]_vars

\* ------------------------------------------------------------------------
\* Rows that are JSON envelopes
\* ------------------------------------------------------------------------
MaxEls == 2

StdDoc == [h \in H |-> Std(h)]
StdText == Render(StdDoc)
\* the standard text without the label of the last heading
MissText == Render([h \in H |-> IF h = 4 THEN Unlabelled(Std(h)) ELSE Std(h)])
\* the standard text with a score out of range
BadText == Render([h \in H |-> IF h = 2 THEN WithBody(h, <<L6>>) ELSE Std(h)])
\* the standard text in another order and with other scores
OtherText == Render([i \in H |-> WithBody(5 - i, <<DigitLine(i + 1)>>)])

EnvTexts == {<<>>, <<SP, LF>>, StdText, MissText, BadText}

USER == <<"u", "s", "e", "r">>

RoleVals == {Absent, PyNone, PyStr(<<>>), PyStr(ASSISTANT), PyStr(USER), PyInt(1)}
ContentVals ==
    {Absent, PyNone, PyInt(0), PyInt(5), PyList(0), PyList(1), PyDict(0), PyDict(1)}
        \cup {PyStr(t) : t \in EnvTexts}
MsgVals ==
    {NoMessage, OtherMessage}
        \cup {DictMessage(c) :
                c \in {Absent, PyStr(<<>>), PyStr(StdText), PyStr(OtherText), PyList(1)}}
ElVals ==
    {OtherEl}
        \cup {DictEl(r, c) :
                r \in {Absent, PyStr(USER), PyStr(ASSISTANT), PyStr(upper(ASSISTANT)), PyInt(1)},
                c \in {Absent, PyStr(<<>>), PyStr(StdText), PyStr(OtherText), PyList(1)}}

EnvTrees ==
    {JDict(r, c, m) : r \in RoleVals, c \in ContentVals, m \in MsgVals}
        \cup {JList(els) : els \in SeqsUpTo(ElVals, MaxEls)}
        \cup {JScalar(PyInt(3)), JScalar(PyStr(StdText)), JScalar(PyNone)}

EnvPayloads ==
    {JsonPayload(obj) : obj \in EnvTrees}
        \cup {TextPayload(t) : t \in EnvTexts \cup {<<"4">>}}
        \cup {NonePayload}

InitEnvelope ==
    /\ raw \in EnvPayloads
    /\ doc = <<>>
    /\ pc = "start"
    /\ unwrapped = PyNone
    /\ result = Pending
    /\ x = PyNone
    /\ once = <<>>
    /\ twice = <<>>
    /\ rows = <<>>
    /\ out = <<>>
    /\ stats = NoStats

SpecEnvelope == InitEnvelope /\ [][Next]_vars

\* ------------------------------------------------------------------------
\* normalize_text on its own, applied twice
\* ------------------------------------------------------------------------
MaxNormLen == 5

NormAlphabet == {SP, TAB, LF, CR, "a"}

NormalizeOnce ==
    /\ pc = "start"
    /\ once' = normalize_text(x)
    /\ pc' = "once"
    /\ UNCHANGED <<doc, raw, unwrapped, result, x, twice, rows, out, stats>>

NormalizeTwice ==
    /\ pc = "once"
    /\ twice' = normalize_text(PyStr(once))
    /\ pc' = "twice"
    /\ UNCHANGED <<doc, raw, unwrapped, result, x, once, rows, out, stats>>

NextNormalize == NormalizeOnce \/ NormalizeTwice

InitNormalize ==
    /\ x \in {PyNone} \cup {PyStr(s) : s \in SeqsUpTo(NormAlphabet, MaxNormLen)}
    /\ pc = "start"
    /\ doc = <<>>
    /\ raw = NonePayload
    /\ unwrapped = PyNone
    /\ result = Pending
    /\ once = <<>>
    /\ twice = <<>>
    /\ rows = <<>>
    /\ out = <<>>
    /\ stats = NoStats

SpecNormalize == InitNormalize /\ [][NextNormalize]_vars

\* ========================================================================
\* Properties
\* ========================================================================
\* What a text is, said without the operators of the program.
\*
\* On the normalized text N (0-based offsets, as in the source):
\* occ[h] is the set of offsets at which the label of heading h occurs, case
\* apart
LowerText(N) == SubSeq([i \in 1..Len(N) |-> LowerChar(N[i])], 1, Len(N))
OccTable(N) ==
    LET L == LowerText(N)
    IN  SubSeq([h \in H |->
                   LET hl == LowerText(headings[h])
                   IN  {i \in 0..(Len(L) - Len(hl)) :
                           \A k \in 1..Len(hl) : L[i + k] = hl[k]}],
               1, Len(headings))
\* the section of a found heading is N[SecStart .. SecEnd), from the end of
\* its first occurrence to the next start of another heading
SecStart(occ, h) == Min(occ[h]) + Len(headings[h])
SecEnd(N, occ, h) ==
    LET a == SecStart(occ, h)
    IN  Min({Len(N)} \cup {j \in UNION {occ[g] : g \in H \ {h}} : j >= a})
\* the character at 1-based position q of N[a .. b) is a digit 1..5 and
\* everything else of N[a .. b) on its line is whitespace
LoneDigitAt(N, a, b, q) ==
    /\ N[q] \in ScoreDigits
    /\ \A j \in (a + 1)..b :
          (j # q /\ \A m \in (IF j < q THEN j ELSE q)..(IF j < q THEN q ELSE j) : N[m] # LF)
              => IsSpace(N[j])
ScorePositions(N, occ, h) ==
    LET a == SecStart(occ, h)
        b == SecEnd(N, occ, h)
    IN  {q \in (a + 1)..b : LoneDigitAt(N, a, b, q)}

\* the normalized text of the row
NormText == normalize_text(unwrapped)
HeadingSet == {headings[h] : h \in H}
FoundSetOf(N) == LET occ == OccTable(N) IN {h \in H : occ[h] # {}}
ScoredSetOf(N) ==
    LET occ == OccTable(N) IN {h \in H : occ[h] # {} /\ ScorePositions(N, occ, h) # {}}
FoundSet == FoundSetOf(NormText)
ScoredSet == ScoredSetOf(NormText)
\* every label is in the text exactly once
LabelsOnce ==
    LET occ == OccTable(NormText) IN \A h \in H : Cardinality(occ[h]) = 1

\* On the layout doc: the lines a heading is followed by, up to the next
\* label (the lines of a section whose label was taken out fall to the
\* section before it)
RECURSIVE Trailing(_, _)
Trailing(d, j) ==
    IF j > Len(d) THEN <<>>
    ELSE IF d[j].h # 0 THEN <<>>
    ELSE d[j].body \o Trailing(d, j + 1)

Labelled(d) == {d[i].h : i \in DOMAIN d} \ {0}
BodyOf(d, h) ==
    LET i == CHOOSE i \in DOMAIN d : d[i].h = h
    IN  d[i].body \o Trailing(d, i + 1)
\* the first line that is a score line by construction (0: none)
ScoreLineIdx(body) ==
    IF \E k \in DOMAIN body : body[k].score > 0
    THEN Min({k \in DOMAIN body : body[k].score > 0})
    ELSE 0
DocScore(body) == IF ScoreLineIdx(body) = 0 THEN 0 ELSE body[ScoreLineIdx(body)].score
\* the words of the non-blank lines after the score line, one space between
RECURSIVE WordsFrom(_, _)
WordsFrom(body, k) ==
    IF k > Len(body) THEN <<>>
    ELSE LET rest == WordsFrom(body, k + 1)
         IN  IF body[k].words = <<>> THEN rest
             ELSE IF rest = <<>> THEN body[k].words
             ELSE body[k].words \o <<SP>> \o rest
DocExplanation(body) == WordsFrom(body, ScoreLineIdx(body) + 1)
DocEntry(body) == [score |-> DocScore(body), explanation |-> DocExplanation(body)]

StartsWith(s, prefix) ==
    Len(s) >= Len(prefix) /\ \A k \in 1..Len(prefix) : s[k] = prefix[k]

\* C1: for every payload, unwrap_raw followed by try_parse returns a success
\* record or a failure with a reason, and never raises, also when the content
\* field of the envelope is a list, an object or a number.
C1_NeverRaises == pc = "parsed" => ~result.raised

NoMention(d) == \A i \in DOMAIN d : \A k \in DOMAIN d[i].body : ~d[i].body[k].mention

\* C2: try_parse succeeds exactly when every configured heading is found in
\* the normalized text and the section of every one of them holds a score
\* line; a success maps exactly the configured headings, each to a score in
\* 1..5; one missing or unscored heading fails the whole record.
C2_SuccessIffAllScored ==
    pc = "parsed" =>
        /\ result.ok <=> (ScoredSet = H)
        /\ NoMention(doc) =>
              (result.ok <=> (/\ Labelled(doc) = H
                              /\ \A h \in H : DocScore(BodyOf(doc, h)) > 0))
        /\ result.ok =>
              /\ ~result.results.none
              /\ DOMAIN result.results.v = HeadingSet
              /\ \A h \in HeadingSet : result.results.v[h].score \in 1..5

\* all four headings found, one of them without a score line: no success
C2_Witness ==
    /\ pc = "parsed"
    /\ ~result.ok
    /\ FoundSet = H
    /\ Cardinality(ScoredSet) = Len(headings) - 1

\* C3: a result of try_parse is either (ok, a mapping, no reason) or (not ok,
\* no mapping, a reason that is empty, missing_sections:... or
\* missing_score_for_...), never both a mapping and a reason, never neither.
C3_OneShape ==
    pc = "parsed" =>
        /\ ~result.raised
        /\ \/ result.ok /\ ~result.results.none /\ result.reason.none
           \/ /\ ~result.ok
              /\ result.results.none
              /\ ~result.reason.none
              /\ \/ result.reason.v = REASON_EMPTY
                 \/ StartsWith(result.reason.v, REASON_MISSING_SECTIONS)
                 \/ StartsWith(result.reason.v, REASON_MISSING_SCORE)

\* a failure after two headings had been parsed
C3_Witness ==
    /\ pc = "parsed"
    /\ ~result.ok
    /\ StartsWith(result.reason.v, REASON_MISSING_SCORE)
    /\ Cardinality(ScoredSet) >= 2

\* all four labels are written, each followed by a score line and then by
\* lines of explanation
ValidDoc(d) ==
    /\ Len(d) = Len(headings)
    /\ Labelled(d) = H
    /\ \A i \in DOMAIN d : d[i].h # 0 /\ d[i].body # <<>> /\ d[i].body[1].score > 0
\* the sections of d in the order of the configuration
ConfigOrder(d) == [h \in H |-> d[CHOOSE i \in DOMAIN d : d[i].h = h]]

\* C4 as stated: whenever all headings are present, each followed by a valid
\* score line and explanation lines, try_parse succeeds with the result it
\* gives for the same sections in configured order, whatever the order.
C4_OrderIndependent_AsStated ==
    (pc = "parsed" /\ ValidDoc(doc)) =>
        /\ result.ok
        /\ result = try_parse(PyStr(Render(ConfigOrder(doc))))

\* C4, amended: the same when, in addition, the label of every heading is in
\* the text exactly once; the entries are then the score and the explanation
\* written under each heading.
C4_OrderIndependent ==
    (pc = "parsed" /\ ValidDoc(doc) /\ LabelsOnce) =>
        /\ result.ok
        /\ \A h \in H : result.results.v[headings[h]] = DocEntry(BodyOf(doc, h))
        /\ result = try_parse(PyStr(Render(ConfigOrder(doc))))

\* the headings in an order that is not the configured one, one of them with
\* two lines of explanation
C4_Witness ==
    /\ pc = "parsed"
    /\ ValidDoc(doc)
    /\ LabelsOnce
    /\ result.ok
    /\ doc[1].h = 4
    /\ doc[2].h = 2
    /\ \E i \in DOMAIN doc : Len(doc[i].body) = 3

\* The recognized envelopes of a text t
IsRoleContent(obj, t) ==
    /\ obj.t = "dict"
    /\ obj.role.t = "str"
    /\ obj.role.s # <<>>
    /\ obj.content = PyStr(t)
IsMessageList(obj, t) ==
    /\ obj.t = "list"
    /\ \A i \in DOMAIN obj.els : obj.els[i].t = "dict" /\ obj.els[i].role.t = "str"
    /\ \E i \in DOMAIN obj.els :
          /\ LowerText(obj.els[i].role.s) = ASSISTANT
          /\ obj.els[i].content = PyStr(t)
          /\ \A j \in DOMAIN obj.els \ {i} : LowerText(obj.els[j].role.s) # ASSISTANT
IsNestedContent(obj, t) ==
    /\ obj.t = "dict"
    /\ obj.role.t = "absent"
    /\ obj.content.t = "absent"
    /\ obj.message.t = "dict"
    /\ obj.message.content = PyStr(t)
IsBareContent(obj, t) ==
    /\ obj.t = "dict"
    /\ obj.role.t = "absent"
    /\ obj.message.t = "absent"
    /\ obj.content = PyStr(t)
Wraps(obj, t) ==
    \/ IsRoleContent(obj, t)
    \/ IsMessageList(obj, t)
    \/ IsNestedContent(obj, t)
    \/ IsBareContent(obj, t)

WrappedTexts == EnvTexts \cup {OtherText}

\* C5: for every text t, the empty one included, the row that is a
\* recognized envelope of t ends with the result of the row that is t itself.
C5_EnvelopeTransparent ==
    (pc = "parsed" /\ raw.enc = "json") =>
        \A t \in WrappedTexts :
            Wraps(raw.obj, t) => result = try_parse(unwrap_raw(TextPayload(t)))

\* a text with every heading once and a valid score line under each, from
\* which the label of one heading was taken out
RemovedOne(d) ==
    /\ Len(d) = Len(headings)
    /\ Cardinality({i \in DOMAIN d : d[i].h = 0}) = 1
    /\ Cardinality(Labelled(d)) = Len(headings) - 1
    /\ \A i \in DOMAIN d :
          /\ d[i].body # <<>>
          /\ d[i].body[1].score > 0
          /\ d[i].h = 0 => d[i].label = <<>>
\* the labels that are written occur once, the other labels do not occur
OnceOrGone(d) ==
    LET occ == OccTable(NormText)
    IN  \A h \in H : Cardinality(occ[h]) = (IF h \in Labelled(d) THEN 1 ELSE 0)

\* C6: with the label of one heading removed from an otherwise valid text,
\* try_parse fails with missing_sections: and the label of that heading; the
\* score and explanation lines left behind change nothing.
C6_RemovedLabel ==
    (pc = "parsed" /\ RemovedOne(doc) /\ OnceOrGone(doc)) =>
        LET gone == CHOOSE h \in H : h \notin Labelled(doc)
        IN  /\ ~result.ok
            /\ ~result.reason.none
            /\ result.reason.v = REASON_MISSING_SECTIONS \o headings[gone]

\* the label is gone from the third place; its score line and explanation
\* line follow the lines of the second section
C6_Witness ==
    /\ pc = "parsed"
    /\ RemovedOne(doc)
    /\ OnceOrGone(doc)
    /\ doc[3].h = 0
    /\ Len(doc[3].body) >= 2
    /\ StartsWith(result.reason.v, REASON_MISSING_SECTIONS)

\* the labels of the headings of S in configuration order, commas between
RECURSIVE LabelsFrom(_, _)
LabelsFrom(S, k) ==
    IF k > Len(headings) THEN <<>>
    ELSE LET rest == LabelsFrom(S, k + 1)
         IN  IF k \notin S THEN rest
             ELSE IF rest = <<>> THEN headings[k]
             ELSE headings[k] \o <<",">> \o rest
MissingSectionsReason == REASON_MISSING_SECTIONS \o LabelsFrom(H \ FoundSet, 1)
IsBlank(s) == \A i \in DOMAIN s : IsSpace(s[i])

\* C7, as stated: whenever the text is not empty and some heading is not
\* found, the reason is missing_sections: and the labels of the headings not
\* found, also when a heading that was found has no score line.
C7_MissingSectionsFirst_AsStated ==
    (pc = "parsed" /\ unwrapped.t = "str" /\ unwrapped.s # <<>> /\ FoundSet # H) =>
        result = Failure(MissingSectionsReason)

\* C7: whenever the text is not blank, some heading is not found and every
\* heading that is found has a score line, the reason is missing_sections:
\* and the comma-joined labels of exactly the headings not found, in
\* configuration order; when a heading that is found has no score line, the
\* reason is missing_score_for_ and the label of the first such heading.
C7_MissingSections ==
    (pc = "parsed" /\ unwrapped.t = "str" /\ ~IsBlank(unwrapped.s)) =>
        LET N == NormText
            found == FoundSetOf(N)
            scored == ScoredSetOf(N)
        IN  found # H =>
                IF scored = found
                THEN result = Failure(REASON_MISSING_SECTIONS \o LabelsFrom(H \ found, 1))
                ELSE result = Failure(REASON_MISSING_SCORE \o headings[Min(found \ scored)])

\* two headings are not found, the other two are found and scored
C7_Witness ==
    /\ pc = "parsed"
    /\ ~IsBlank(unwrapped.s)
    /\ Cardinality(H \ FoundSet) = 2
    /\ FoundSet # {}
    /\ ScoredSet = FoundSet
    /\ result = Failure(MissingSectionsReason)

\* lines that are no score line: 0, 6, a number of two digits, a digit with
\* other text; and the lines of a section made of such lines only
RejectedLines == {L0, L6, L12, L4ok}
OnlyRejected(body) ==
    /\ \E k \in DOMAIN body : body[k] \in RejectedLines
    /\ \A k \in DOMAIN body : body[k] \in RejectedLines \cup {Lblank, Lws}
Unscored == FoundSet \ ScoredSet

\* C8: a line reading 0 or 6, a number of several digits or a digit with
\* other text is never taken as the score line: a heading that is found (once)
\* and is followed by such lines only has no score line, and try_parse fails
\* with missing_score_for_ and the label of that heading (the label of the
\* first heading without a score line, when there are several).
C8_ScoreLineExact ==
    pc = "parsed" =>
        \A i \in DOMAIN doc :
            LET h == doc[i].h
            IN  (/\ h # 0
                 /\ OnlyRejected(BodyOf(doc, h))
                 /\ Cardinality(OccTable(NormText)[h]) = 1)
                => LET unscored == Unscored
                   IN  /\ h \in unscored
                       /\ result = Failure(REASON_MISSING_SCORE \o headings[Min(unscored)])
                       /\ (unscored = {h} =>
                              result = Failure(REASON_MISSING_SCORE \o headings[h]))

\* the second heading is followed by a number of two digits and by a digit
\* with a word, and the reason names it
C8_Witness ==
    /\ pc = "parsed"
    /\ Len(doc) = Len(headings)
    /\ \E i \in DOMAIN doc :
          /\ doc[i].h = 2
          /\ doc[i].body = <<L12, L4ok>>
    /\ Unscored = {2}
    /\ result = Failure(REASON_MISSING_SCORE \o headings[2])

\* C9: in a text with every label once and a score line under each, the
\* score of a heading is the value of the first line under it that is a
\* single digit 1..5, and its explanation is the non-blank lines after that
\* line, in order, trimmed and joined by single spaces, later lone digits
\* included; the lines before the score line are left out.
C9_ScoreAndExplanation ==
    (/\ pc = "parsed"
     /\ Labelled(doc) = H
     /\ LabelsOnce
     /\ \A h \in H : DocScore(BodyOf(doc, h)) > 0)
    => /\ result.ok
       /\ \A h \in H : result.results.v[headings[h]] = DocEntry(BodyOf(doc, h))

\* the lines ok, 4, a b, 2 under the second heading: score 4, explanation
\* a b 2
C9_Witness ==
    /\ pc = "parsed"
    /\ Labelled(doc) = H
    /\ LabelsOnce
    /\ BodyOf(doc, 2) = <<Lok, DigitLine(4), Lab, DigitLine(2)>>
    /\ result.ok
    /\ result.results.v[headings[2]] =
           [score |-> 4, explanation |-> <<"a", SP, "b", SP, "2">>]

\* C10: normalize_text of a normalized text is that text, for every text,
\* those with CR LF, lone CR, tabs, lines of whitespace and blank lines at
\* the ends included.
C10_NormalizeIdempotent == pc = "twice" => twice = once

\* a text with a carriage return and a tab that normalization changes and
\* does not empty
C10_Witness ==
    /\ pc = "twice"
    /\ x.t = "str"
    /\ \E i \in DOMAIN x.s : x.s[i] = CR
    /\ \E i \in DOMAIN x.s : x.s[i] = TAB
    /\ once # x.s
    /\ once # <<>>
    /\ twice = once

\* C11: in the output of normalize_text every line is canonical: no two
\* whitespace characters in a row, no whitespace at the end of a line and no
\* whitespace at the start of a line, on every line of the output.
C11_CanonicalLines ==
    pc \in {"once", "twice"} =>
        \A i \in DOMAIN once :
            (IsSpace(once[i]) /\ once[i] # LF) =>
                /\ i > 1 /\ ~IsSpace(once[i - 1])
                /\ i < Len(once) /\ ~IsSpace(once[i + 1])

\* the payload is the JSON text of an object
IsObject == raw.t = "str" /\ raw.enc = "json" /\ raw.obj.t = "dict"
\* the object has a role field, of any value, and a content field that is a
\* text with something in it
HasRoleAndContent ==
    /\ raw.obj.role.t # "absent"
    /\ raw.obj.content.t = "str"
    /\ raw.obj.content.s # <<>>
HasMessageContent == raw.obj.message.t = "dict" /\ Truthy(dict_get(raw.obj.message.content))

\* C12: the shapes are tried in a fixed order and the first match wins: an
\* object with a role field and a content field (a text that is not empty)
\* yields the value of its content field, whatever the role is and also when it has a message object
\* with a content of its own; the bare content is used only when no earlier
\* shape matches (a message object with content goes before it).
C12_FirstShapeWins ==
    (pc # "start" /\ IsObject) =>
        /\ HasRoleAndContent => unwrapped = raw.obj.content
        /\ (raw.obj.role.t = "absent" /\ HasMessageContent)
               => unwrapped = raw.obj.message.content

\* an element of a list that is an object with the role assistant, and one
\* that is an object whose role is there and is no text
IsAssistantEl(el) ==
    el.t = "dict" /\ el.role.t = "str" /\ LowerText(el.role.s) = ASSISTANT
IsOddRoleEl(el) == el.t = "dict" /\ el.role.t \notin {"str", "absent"}
\* payloads outside the four shapes: no JSON text; a JSON number, string or
\* null; an object with no content and no message content; a list in which
\* no assistant element comes before the first element with an odd role
NoShape ==
    \/ raw.t = "str" /\ raw.enc = "text"
    \/ raw.t = "str" /\ raw.enc = "json" /\
          \/ raw.obj.t = "scalar"
          \/ /\ raw.obj.t = "dict"
             /\ raw.obj.content.t = "absent"
             /\ raw.obj.message.content.t = "absent"
          \/ /\ raw.obj.t = "list"
             /\ \A i \in DOMAIN raw.obj.els :
                   IsAssistantEl(raw.obj.els[i]) =>
                       \E j \in 1..(i - 1) : IsOddRoleEl(raw.obj.els[j])

\* C13: a payload that is no JSON text, or is JSON outside the four shapes
\* (a number or string, an object without content, a list without an
\* assistant element, a list element whose role is no text), comes back from
\* unwrap_raw exactly as given and nothing is raised; None and the empty
\* payload come back unchanged.
C13_BestEffort ==
    pc # "start" =>
        /\ raw.t = "none" => unwrapped = PyNone
        /\ (raw.t = "str" /\ raw.s = <<>>) => unwrapped = PyStr(<<>>)
        /\ NoShape => unwrapped = PyStr(raw.s)

\* a list whose first element has a number as role and whose second element
\* is an assistant message with a text
C13_Witness ==
    /\ pc # "start"
    /\ raw.enc = "json"
    /\ raw.obj.t = "list"
    /\ Len(raw.obj.els) = 2
    /\ IsOddRoleEl(raw.obj.els[1])
    /\ IsAssistantEl(raw.obj.els[2])
    /\ raw.obj.els[2].content = PyStr(StdText)
    /\ NoShape
    /\ unwrapped = PyStr(raw.s)

\* the input of try_parse is None, the empty text or whitespace only
BlankInput == unwrapped.t = "none" \/ (unwrapped.t = "str" /\ IsBlank(unwrapped.s))

\* C14: try_parse fails with the reason empty exactly when its input is
\* None, the empty text or whitespace only, which is when the normalized
\* input is empty; no missing_sections: reason is given for such an input.
C14_EmptyIff ==
    pc = "parsed" =>
        /\ (result = Failure(REASON_EMPTY)) <=> BlankInput
        /\ unwrapped.t \in {"none", "str"} => (BlankInput <=> NormText = <<>>)
        /\ BlankInput =>
              ~(~result.reason.none /\ StartsWith(result.reason.v, REASON_MISSING_SECTIONS))

\* a text of a space and a line feed, answered with empty
C14_Witness ==
    /\ pc = "parsed"
    /\ unwrapped = PyStr(<<SP, LF>>)
    /\ result = Failure(REASON_EMPTY)

\* For every heading found in N: the offsets after and next_idx of its
\* section as extract cuts it (sp), the start of the first occurrence of its
\* label (first), and the starts of all occurrences of the other labels
\* (others)
SpansOf(N) ==
    LET L == LowerText(N)
        at == {[h |-> h,
                occ |-> LET hl == LowerText(headings[h])
                        IN  {i \in 0..(Len(L) - Len(hl)) :
                                \A k \in 1..Len(hl) : L[i + k] = hl[k]}] : h \in H}
    IN  {[h |-> a.h,
          sp |-> section_span(N, headings[a.h]),
          first |-> Min(a.occ),
          others |-> UNION {b.occ : b \in {c \in at : c.h # a.h}}] :
            a \in {c \in at : c.occ # {}}}
\* two sections have no offset in common
Disjoint(a, b) ==
    \/ a.next_idx <= a.after
    \/ b.next_idx <= b.after
    \/ a.next_idx <= b.after
    \/ b.next_idx <= a.after
\* the first occurrences of the labels of two headings share no character
FirstApart(a, b) ==
    \/ a.first + Len(headings[a.h]) <= b.first
    \/ b.first + Len(headings[b.h]) <= a.first

\* C15, as stated: the sections of two different headings that are found
\* never have a character in common, whatever the order of the headings.
C15_SectionsDisjoint_AsStated ==
    pc = "parsed" =>
        \A a, b \in SpansOf(NormText) : a.h # b.h => Disjoint(a.sp, b.sp)

\* C15: the section of a heading that is found starts right after the first
\* occurrence of its label and ends at the smallest start of an occurrence
\* of another label at or after that point, or at the end of the text; the
\* sections of two headings whose first occurrences share no character have
\* no character in common, whatever the order of the headings.
C15_SectionsDisjoint ==
    pc = "parsed" =>
        LET N == NormText
            spans == SpansOf(N)
        IN  /\ \A a \in spans :
                  /\ a.sp.after = a.first + Len(headings[a.h])
                  /\ a.sp.next_idx =
                         Min({Len(N)} \cup {j \in a.others : j >= a.sp.after})
            /\ \A a, b \in spans :
                  (a.h # b.h /\ FirstApart(a, b)) => Disjoint(a.sp, b.sp)

\* the four headings in an order that is not the configured one, found and
\* scored, each with a section that is not empty
C15_Witness ==
    /\ pc = "parsed"
    /\ result.ok
    /\ Len(doc) = Len(headings)
    /\ doc[1].h = 3
    /\ doc[2].h = 1
    /\ LET spans == SpansOf(NormText)
       IN  /\ Cardinality(spans) = Len(headings)
           /\ \A a \in spans : a.sp.after < a.sp.next_idx
           /\ \A a, b \in spans :
                 a.h # b.h => FirstApart(a, b) /\ Disjoint(a.sp, b.sp)

\* the headings written in d that have no score line under them
DocUnscored(d) == {h \in Labelled(d) : DocScore(BodyOf(d, h)) = 0}
\* the place of the label of h in d
PlaceOf(d, h) == CHOOSE i \in DOMAIN d : d[i].h = h

\* C16: when every heading is found and the section of at least one is empty
\* or has no score line, try_parse fails with missing_score_for_ and the
\* label of the first heading in the order of the configuration, not of the
\* text, whose section has no score; what the later headings hold changes
\* nothing.
C16_FirstUnscoredNamed ==
    pc = "parsed" =>
        /\ LET scored == ScoredSet
           IN  (scored # H /\ FoundSetOf(NormText) = H) =>
                   result = Failure(REASON_MISSING_SCORE \o headings[Min(H \ scored)])
        /\ (Labelled(doc) = H /\ DocUnscored(doc) # {} /\ LabelsOnce) =>
              result = Failure(REASON_MISSING_SCORE \o headings[Min(DocUnscored(doc))])

\* two headings without a score, the one that comes later in the
\* configuration written first in the text, the other one with an empty
\* section; the reason names the one with the empty section
C16_Witness ==
    /\ pc = "parsed"
    /\ Labelled(doc) = H
    /\ LabelsOnce
    /\ FoundSet = H
    /\ DocUnscored(doc) = {2, 4}
    /\ PlaceOf(doc, 4) < PlaceOf(doc, 2)
    /\ BodyOf(doc, 4) = <<L6>>
    /\ BodyOf(doc, 2) = <<>>
    /\ result = Failure(REASON_MISSING_SCORE \o headings[2])

\* the payload is the JSON text of a list of message objects, each with a
\* role that is a text or with no role, at least one of them an assistant
\* message with a text as content
IsMessages ==
    /\ raw.t = "str" /\ raw.enc = "json" /\ raw.obj.t = "list"
    /\ \A i \in DOMAIN raw.obj.els :
          raw.obj.els[i].t = "dict" /\ raw.obj.els[i].role.t \in {"str", "absent"}
    /\ \E i \in DOMAIN raw.obj.els : IsAssistantEl(raw.obj.els[i])
FirstAssistant == Min({i \in DOMAIN raw.obj.els : IsAssistantEl(raw.obj.els[i])})

\* C17: for a list of message objects unwrap_raw returns the content of the
\* first element whose role is assistant in any case of the letters; the
\* elements with other roles are passed over and no later assistant element
\* is returned in its place, also when the content of the first one is empty.
C17_FirstAssistant ==
    (pc # "start" /\ IsMessages /\ raw.obj.els[FirstAssistant].content.t = "str") =>
        unwrapped = raw.obj.els[FirstAssistant].content

\* sub occurs in s, the case of the letters aside
Contains(s, sub) ==
    LET ls == LowerText(s)
        lsub == LowerText(sub)
    IN  \E i \in 0..(Len(ls) - Len(lsub)) : \A k \in 1..Len(lsub) : ls[i + k] = lsub[k]
\* the explanation returned for heading h
ExplanationOf(h) == result.results.v[headings[h]].explanation
\* the label of g is of one word
OneWord(g) == \A k \in DOMAIN headings[g] : headings[g][k] # SP
\* somewhere in d the first word of a label ends a line and its second word
\* starts the next one
BrokenLabel(d) ==
    \E i \in DOMAIN d : \E k \in 1..(Len(d[i].body) - 1) :
        d[i].body[k] = Lcoerenza /\ d[i].body[k + 1] = Lnarrativa

\* C18, as stated: in a success the explanation of a heading never contains
\* the label of another heading, also not a label that is broken across two
\* lines in the text and joined again with a space in the explanation.
C18_NoLabelInExplanation_AsStated ==
    (pc = "parsed" /\ result.ok) =>
        \A h, g \in H : h # g => ~Contains(ExplanationOf(h), headings[g])

\* C18: in a success the explanation of a heading never contains a label of
\* one word of another heading, and it contains a label of two words of
\* another heading only if the two words are on two lines of the text, one
\* after the other, which the explanation joins with a space.
C18_NoLabelInExplanation ==
    (pc = "parsed" /\ result.ok) =>
        \A h, g \in H :
            (h # g /\ Contains(ExplanationOf(h), headings[g])) =>
                ~OneWord(g) /\ BrokenLabel(doc)

\* the explanation under the second heading mentions the label of the last
\* heading; the section is cut there and the explanation is the word before
C18_Witness ==
    /\ pc = "parsed"
    /\ result.ok
    /\ \E i \in DOMAIN doc : doc[i].h = 2 /\ doc[i].body = <<DigitLine(5), Lazione>>
    /\ ExplanationOf(2) = <<"b", "e", "l", "l", "a">>
    /\ \A h, g \in H : h # g => ~Contains(ExplanationOf(h), headings[g])

\* ------------------------------------------------------------------------
\* main: the loop over the rows and the report
\* ------------------------------------------------------------------------
MaxRows == 3

\* snippet = (unwrapped or '')[:800]
SNIPPET_LEN == 800
snippet_of(u) ==
    LET text == IF Truthy(u) THEN u.s ELSE <<>>
    IN  Slice(text, 0, Min({SNIPPET_LEN, Len(text)}))

\* A row as fetched (of its columns only id and raw_json matter here) and
\* the record main builds for it: the keys it has and the values of the keys
\* that depend on the outcome
Row(id, payload) == [id |-> id, raw |-> payload]
BaseKeys == {"id", "story_id", "model_id", "agent_id", "ts", "ok"}
ParsedRec(id, results) ==
    [id |-> id, ok |-> TRUE, keys |-> BaseKeys \cup {"parsed"},
     parsed |-> results, error |-> <<>>, snippet |-> <<>>]
FailedRec(id, err, snippet) ==
    [id |-> id, ok |-> FALSE, keys |-> BaseKeys \cup {"error", "snippet"},
     parsed |-> <<>>, error |-> err, snippet |-> snippet]

\* One pass of the body of for r in rows.  try_parse raising ends main with
\* the exception, after checked was counted and before a record is made.
MainRow ==
    /\ pc = "loop"
    /\ Len(out) < Len(rows)
    /\ LET row == rows[Len(out) + 1]
           checked == [stats EXCEPT !.checked = @ + 1]
           u == unwrap_raw(row.raw)
           res == try_parse(u)
       IN  /\ raw' = row.raw
           /\ unwrapped' = u
           /\ result' = res
           /\ IF res.raised
              THEN /\ pc' = "crashed"
                   /\ stats' = checked
                   /\ out' = out
              ELSE IF res.ok
              THEN /\ pc' = "loop"
                   /\ stats' = [checked EXCEPT !.parsed = @ + 1]
                   /\ out' = Append(out, ParsedRec(row.id, res.results.v))
              ELSE /\ pc' = "loop"
                   /\ stats' = [checked EXCEPT !.failed = @ + 1]
                   /\ out' = Append(out, FailedRec(row.id, res.reason.v, snippet_of(u)))
    /\ UNCHANGED <<doc, x, once, twice, rows>>

\* after the loop: the report is written from stats and out
WriteReport ==
    /\ pc = "loop"
    /\ Len(out) = Len(rows)
    /\ pc' = "done"
    /\ UNCHANGED <<doc, raw, unwrapped, result, x, once, twice, rows, out, stats>>

NextBatch == MainRow \/ WriteReport

\* The payloads of the rows: texts, a message list, an object whose content
\* is a list
BatchRaws ==
    {TextPayload(StdText), TextPayload(BadText), TextPayload(<<>>),
     JsonPayload(JList(<<DictEl(PyStr(USER), PyStr(OtherText)),
                         DictEl(PyStr(ASSISTANT), PyStr(StdText))>>)),
     JsonPayload(JDict(PyStr(ASSISTANT), PyList(1), NoMessage))}

InitBatch ==
    /\ rows \in {[k \in DOMAIN f |-> Row(k, f[k])] : f \in SeqsUpTo(BatchRaws, MaxRows)}
    /\ out = <<>>
    /\ stats = NoStats
    /\ pc = "loop"
    /\ doc = <<>>
    /\ raw = NonePayload
    /\ unwrapped = PyNone
    /\ result = Pending
    /\ x = PyNone
    /\ once = <<>>
    /\ twice = <<>>

SpecBatch == InitBatch /\ [][NextBatch]_vars

\* C19: after any number of rows the report has one record per row
\* processed, in the order of the rows; a record has parsed exactly when ok
\* is true, and error and snippet exactly when ok is false; checked = parsed
\* + failed = the number of rows processed, after every row and, with all
\* rows, when the report is written.
C19_ReportAndCounters ==
    pc \in {"loop", "done", "crashed"} =>
        /\ Len(out) = stats.checked
        /\ stats.checked = stats.parsed + stats.failed
        /\ stats.checked <= Len(rows)
        /\ pc = "done" => stats.checked = Len(rows)
        /\ \A k \in DOMAIN out :
              /\ out[k].id = rows[k].id
              /\ ("parsed" \in out[k].keys) <=> out[k].ok
              /\ ("error" \in out[k].keys) <=> ~out[k].ok
              /\ ("snippet" \in out[k].keys) <=> ~out[k].ok

====
